---- MODULE Spec2Model ----
(***************************************************************************)
(* A model of the annotation editor of src/src/main.rs: the AppState       *)
(* fields, the annotation and label files it reads and writes, and one     *)
(* action per kind of frame that eframe delivers to AppState::update.      *)
(*                                                                         *)
(* Conventions.                                                            *)
(*  - Vec indices are 0-based as in the source; At(v, i) reads v[i].       *)
(*    Option<usize> is an Int with NoneIdx for None.                       *)
(*  - An f32 ratio (cx, cy, w, h) is an integer count of 1/Scale units, a  *)
(*    pixel coordinate is an integer count of pixels.  "{:.6}" rounds a    *)
(*    ratio to a count of 1/1000000, which is what a file line holds.      *)
(*  - A file is [exists, lines]; a line is [tok, vals]: tok is             *)
(*    <<"id", n>> for a token that parses as usize, <<"name", s>> for any  *)
(*    other token and <<>> when the line is blank; vals are the fields     *)
(*    after the token, <<v>> for a field that parses as f32 (v in          *)
(*    1/1000000) and <<>> for one that does not.                           *)
(***************************************************************************)
EXTENDS Integers, Sequences, FiniteSets, TLC

(***************************************************************************)
(* Bounds of the model.                                                    *)
(***************************************************************************)
NumImages == 2
MaxFrames == 4

(***************************************************************************)
(* Program constants and the host's layout.                                *)
(***************************************************************************)
history_limit == 200
click_tolerance == 8
min_box_pixels == 6
HandleMin == 6
Scale == 4000000
ImgLeft == 5
ImgTop == 10
ImgWidth == 100
ImgHeight == 50

NoneIdx == -1

At(v, i) == v[i + 1]

Min2(a, b) == IF a <= b THEN a ELSE b
Max2(a, b) == IF a >= b THEN a ELSE b
Clamp(v, lo, hi) == Max2(lo, Min2(v, hi))
Abs(a) == IF a >= 0 THEN a ELSE -a

\* f32 division and "{:.6}" both round to the nearest representable value.
RoundDiv(a, b) ==
    IF a >= 0 THEN (2 * a + b) \div (2 * b) ELSE -((2 * (-a) + b) \div (2 * b))

\* classes.iter().position(|c| c == name), NoneIdx for None
Position(classes, name) ==
    IF \E i \in 1..Len(classes) : classes[i] = name
    THEN (CHOOSE i \in 1..Len(classes) :
            /\ classes[i] = name
            /\ \A j \in 1..(i - 1) : classes[j] # name) - 1
    ELSE NoneIdx

Contains(classes, name) == \E i \in 1..Len(classes) : classes[i] = name

BBox(class_name, cx, cy, w, h) ==
    [class_name |-> class_name, cx |-> cx, cy |-> cy, w |-> w, h |-> h]

(***************************************************************************)
(* Files.                                                                  *)
(***************************************************************************)
NoFile == [exists |-> FALSE, lines |-> <<>>]
FileOf(lines) == [exists |-> TRUE, lines |-> lines]

IdTok(n) == <<"id", n>>
NameTok(s) == <<"name", s>>
Line(tok, vals) == [tok |-> tok, vals |-> vals]
BlankLine == Line(<<>>, <<>>)

\* format!("{:.6}", v): the ratio v written with 6 decimals
Fmt6(v) == RoundDiv(v, Scale \div 1000000)
\* parts[k].parse::<f32>() of a written field
ParseF32(t) == t[1] * (Scale \div 1000000)

\* format!("class_{}", n)
PlaceholderName(n) == "class_" \o ToString(n)

\* token.replace('_', " ") on the text tokens the model's files hold
ReplaceUnderscore(s) ==
    CASE s = "big_car" -> "big car"
      [] s = "class_1" -> "class 1"
      [] OTHER -> s

(***************************************************************************)
(* The environment of one call: whether a File::create of this frame       *)
(* succeeds and whether the image decoder accepts the image to show.       *)
(***************************************************************************)
Env(write_ok, decode_ok) == [write_ok |-> write_ok, decode_ok |-> decode_ok]

(***************************************************************************)
(* AppState::push_history and AppState::undo.  history_img is a history    *)
(* variable of the model: the image that was current when the snapshot at  *)
(* the same index was pushed.                                              *)
(***************************************************************************)
\* push_history without its capacity check
push_history_unbounded(s) ==
    [s EXCEPT !.history = Append(s.history, s.boxes),
              !.history_img = Append(s.history_img, s.cur_idx)]

push_history(s) ==
    LET h == Append(s.history, s.boxes)
        g == Append(s.history_img, s.cur_idx)
    IN  IF Len(h) > history_limit
        THEN [s EXCEPT !.history = Tail(h), !.history_img = Tail(g)]
        ELSE [s EXCEPT !.history = h, !.history_img = g]

\* AppState::save_classes_file
save_classes_file(s, env) ==
    IF env.write_ok THEN [s EXCEPT !.labels = FileOf(s.classes)] ELSE s

RECURSIVE NonEmptyLines(_)
NonEmptyLines(lines) ==
    IF lines = <<>> THEN <<>>
    ELSE IF Head(lines) = "" THEN NonEmptyLines(Tail(lines))
    ELSE <<Head(lines)>> \o NonEmptyLines(Tail(lines))

\* AppState::load_classes_file; a label file holds its lines already trimmed
load_classes_file(s) ==
    IF s.labels.exists
    THEN LET read == NonEmptyLines(s.labels.lines)
         IN  [s EXCEPT !.classes = IF read = <<>> THEN <<"object">> ELSE read]
    ELSE s

\* the offset of both codec directions: 1 when the first class is "object"
ObjectOffset(classes) ==
    IF Len(classes) > 0 /\ classes[1] = "object" THEN 1 ELSE 0

\* the numeric id that save_annotations_for_current writes for a class at cid
WrittenId(cid, classes) ==
    LET minus == ObjectOffset(classes)
    IN  IF cid < minus THEN cid ELSE cid - minus

\* the loop of save_annotations_for_current over boxes k..: the lines so far,
\* the class table and the label file as the loop leaves them
RECURSIVE SaveLoop(_, _, _, _, _, _)
SaveLoop(boxes, k, classes, labels, lines, env) ==
    IF k > Len(boxes) THEN [classes |-> classes, labels |-> labels, lines |-> lines]
    ELSE LET b == boxes[k]
             pos == Position(classes, b.class_name)
             cid == IF pos = NoneIdx THEN Len(classes) ELSE pos
             classes2 == IF pos = NoneIdx THEN Append(classes, b.class_name) ELSE classes
             labels2 == IF pos = NoneIdx /\ env.write_ok THEN FileOf(classes2) ELSE labels
             line == Line(IdTok(WrittenId(cid, classes)),
                          << <<Fmt6(b.cx)>>, <<Fmt6(b.cy)>>, <<Fmt6(b.w)>>, <<Fmt6(b.h)>> >>)
         IN  SaveLoop(boxes, k + 1, classes2, labels2, Append(lines, line), env)

\* AppState::save_annotations_for_current; a failed File::create returns Err
\* before anything is written
save_annotations_for_current(s, env) ==
    IF ~env.write_ok THEN s
    ELSE LET r == SaveLoop(s.boxes, 1, s.classes, s.labels, <<>>, env)
         IN  [s EXCEPT !.classes = r.classes,
                       !.labels = r.labels,
                       !.ann = [s.ann EXCEPT ![s.cur_idx] = FileOf(r.lines)]]

\* undo that clears the selection and persists even when nothing was popped
undo_unguarded(s, env) ==
    LET n == Len(s.history)
        popped == IF n = 0 THEN s
                  ELSE [s EXCEPT !.boxes = s.history[n],
                                 !.history = SubSeq(s.history, 1, n - 1),
                                 !.history_img = SubSeq(s.history_img, 1, n - 1)]
    IN  save_annotations_for_current([popped EXCEPT !.selected_box = NoneIdx], env)

\* AppState::undo
undo(s, env) ==
    IF s.history = <<>> THEN s
    ELSE LET n == Len(s.history)
             popped == [s EXCEPT !.boxes = s.history[n],
                                 !.history = SubSeq(s.history, 1, n - 1),
                                 !.history_img = SubSeq(s.history_img, 1, n - 1),
                                 !.selected_box = NoneIdx]
         IN  save_annotations_for_current(popped, env)

\* the extension loop naming each placeholder by the length after the push
RECURSIVE ExtendTo_misnamed(_, _)
ExtendTo_misnamed(classes, id) ==
    IF Len(classes) <= id
    THEN ExtendTo_misnamed(Append(classes, PlaceholderName(Len(classes) + 1)), id)
    ELSE classes

\* while self.classes.len() <= id { push(format!("class_{}", len)) }
RECURSIVE ExtendTo(_, _)
ExtendTo(classes, id) ==
    IF Len(classes) <= id
    THEN ExtendTo(Append(classes, PlaceholderName(Len(classes))), id)
    ELSE classes

PartsLen(line) == (IF line.tok = <<>> THEN 0 ELSE 1) + Len(line.vals)

\* the class name and the class table after the token of a line is resolved
ResolveToken(tok, addition, classes) ==
    IF tok[1] = "id"
    THEN LET id == tok[2] + addition
             extended == ExtendTo(classes, id)
         IN  [name |-> At(extended, id), classes |-> extended]
    ELSE [name |-> ReplaceUnderscore(tok[2]), classes |-> classes]

\* the loop of load_annotations_for_current over lines k..
RECURSIVE LoadLoop(_, _, _, _, _)
LoadLoop(lines, k, addition, classes, boxes) ==
    IF k > Len(lines) THEN [classes |-> classes, boxes |-> boxes]
    ELSE LET line == lines[k]
         IN  IF PartsLen(line) < 5
             THEN LoadLoop(lines, k + 1, addition, classes, boxes)
             ELSE LET r == ResolveToken(line.tok, addition, classes)
                      ok == \A i \in 1..4 : line.vals[i] # <<>>
                      b == BBox(r.name, ParseF32(line.vals[1]), ParseF32(line.vals[2]),
                                ParseF32(line.vals[3]), ParseF32(line.vals[4]))
                      classes2 == IF ok /\ ~Contains(r.classes, r.name)
                                  THEN Append(r.classes, r.name) ELSE r.classes
                  IN  LoadLoop(lines, k + 1, addition, classes2,
                               IF ok THEN Append(boxes, b) ELSE boxes)

\* AppState::load_annotations_for_current
load_annotations_for_current(s, env) ==
    LET f == s.ann[s.cur_idx]
    IN  IF ~f.exists THEN [s EXCEPT !.boxes = <<>>]
        ELSE LET r == LoadLoop(f.lines, 1, ObjectOffset(s.classes), s.classes, <<>>)
             IN  save_classes_file([s EXCEPT !.boxes = r.boxes, !.classes = r.classes], env)

NoPos == [some |-> FALSE, x |-> 0, y |-> 0]
SomePos(x, y) == [some |-> TRUE, x |-> x, y |-> y]

DragNone == <<"None">>
DragCreating == <<"Creating">>
DragMoving == <<"Moving">>
DragResizing(corner) == <<"Resizing", corner>>

\* AppState::load_current_image_texture; a failed decode returns Err early
load_current_image_texture(s, env) ==
    LET reset == [s EXCEPT !.texture = FALSE,
                           !.selected_box = NoneIdx,
                           !.drag_mode = DragNone,
                           !.last_pointer_pos = NoPos]
    IN  IF ~env.decode_ok THEN reset
        ELSE load_annotations_for_current([reset EXCEPT !.texture = TRUE], env)

(***************************************************************************)
(* Geometry of the press handler.  Pixel quantities are compared doubled   *)
(* and scaled by Scale, so that b.w / 2.0 stays exact.                     *)
(***************************************************************************)
\* 2 * Scale * (img_rect.left() + (b.cx - b.w/2.0) * img_rect.width())
Left2(b) == 2 * Scale * ImgLeft + (2 * b.cx - b.w) * ImgWidth
Top2(b) == 2 * Scale * ImgTop + (2 * b.cy - b.h) * ImgHeight
Right2(b) == Left2(b) + 2 * b.w * ImgWidth
Bottom2(b) == Top2(b) + 2 * b.h * ImgHeight
Px2(v) == 2 * Scale * v

\* img_rect.contains(pos)
RectContains(pos) ==
    /\ ImgLeft <= pos.x /\ pos.x <= ImgLeft + ImgWidth
    /\ ImgTop <= pos.y /\ pos.y <= ImgTop + ImgHeight

\* the tolerance-expanded rectangle test of the press handler
Hit(b, pos) ==
    /\ Px2(pos.x) >= Left2(b) - Px2(click_tolerance)
    /\ Px2(pos.x) <= Right2(b) + Px2(click_tolerance)
    /\ Px2(pos.y) >= Top2(b) - Px2(click_tolerance)
    /\ Px2(pos.y) <= Bottom2(b) + Px2(click_tolerance)

\* the hit test walking the boxes in insertion order
FindHit_first(boxes, pos) ==
    IF \E i \in 1..Len(boxes) : Hit(boxes[i], pos)
    THEN (CHOOSE i \in 1..Len(boxes) :
            /\ Hit(boxes[i], pos)
            /\ \A j \in 1..(i - 1) : ~Hit(boxes[j], pos)) - 1
    ELSE NoneIdx

\* for (i, b) in boxes.iter().enumerate().rev() { if hit { found = Some(i); break } }
FindHit(boxes, pos) ==
    IF \E i \in 1..Len(boxes) : Hit(boxes[i], pos)
    THEN (CHOOSE i \in 1..Len(boxes) :
            /\ Hit(boxes[i], pos)
            /\ \A j \in (i + 1)..Len(boxes) : ~Hit(boxes[j], pos)) - 1
    ELSE NoneIdx

\* the classification testing the bottom corners before the top ones
ClassifyPress_bottom_first(b, pos) ==
    LET handle == Max2(click_tolerance, HandleMin)
        near_left == Abs(Px2(pos.x) - Left2(b)) <= Px2(handle)
        near_right == Abs(Px2(pos.x) - Right2(b)) <= Px2(handle)
        near_top == Abs(Px2(pos.y) - Top2(b)) <= Px2(handle)
        near_bottom == Abs(Px2(pos.y) - Bottom2(b)) <= Px2(handle)
    IN  IF near_right /\ near_bottom THEN DragResizing("BR")
        ELSE IF near_left /\ near_bottom THEN DragResizing("BL")
        ELSE IF near_right /\ near_top THEN DragResizing("TR")
        ELSE IF near_left /\ near_top THEN DragResizing("TL")
        ELSE DragMoving

\* the drag mode a press on box b at pos starts
ClassifyPress(b, pos) ==
    LET handle == Max2(click_tolerance, HandleMin)
        near_left == Abs(Px2(pos.x) - Left2(b)) <= Px2(handle)
        near_right == Abs(Px2(pos.x) - Right2(b)) <= Px2(handle)
        near_top == Abs(Px2(pos.y) - Top2(b)) <= Px2(handle)
        near_bottom == Abs(Px2(pos.y) - Bottom2(b)) <= Px2(handle)
    IN  IF near_left /\ near_top THEN DragResizing("TL")
        ELSE IF near_right /\ near_top THEN DragResizing("TR")
        ELSE IF near_left /\ near_bottom THEN DragResizing("BL")
        ELSE IF near_right /\ near_bottom THEN DragResizing("BR")
        ELSE DragMoving

\* the box that add_box_from_drag computes from drag_start and drag_end
DraggedBox(s) ==
    LET x0 == Clamp(s.drag_start.x - ImgLeft, 0, ImgWidth)
        y0 == Clamp(s.drag_start.y - ImgTop, 0, ImgHeight)
        x1 == Clamp(s.drag_end.x - ImgLeft, 0, ImgWidth)
        y1 == Clamp(s.drag_end.y - ImgTop, 0, ImgHeight)
        nx0 == RoundDiv(Min2(x0, x1) * Scale, ImgWidth)
        ny0 == RoundDiv(Min2(y0, y1) * Scale, ImgHeight)
        nx1 == RoundDiv(Max2(x0, x1) * Scale, ImgWidth)
        ny1 == RoundDiv(Max2(y0, y1) * Scale, ImgHeight)
        w == Max2(nx1 - nx0, 0)
        h == Max2(ny1 - ny0, 0)
        cx == (nx0 + nx1) \div 2
        cy == (ny0 + ny1) \div 2
        class_name == IF s.classes = <<>> THEN "object"
                      ELSE IF s.cur_class_idx < Len(s.classes)
                           THEN At(s.classes, s.cur_class_idx)
                           ELSE At(s.classes, 0)
    IN  BBox(class_name, cx, cy, w, h)

\* the threshold of add_box_from_drag tested on the width alone
BigEnough_width_only(b) ==
    /\ b.w > 0 /\ b.h > 0
    /\ b.w * ImgWidth >= min_box_pixels * Scale

\* the pixel size threshold of add_box_from_drag
BigEnough(b) ==
    /\ b.w > 0 /\ b.h > 0
    /\ b.w * ImgWidth >= min_box_pixels * Scale
    /\ b.h * ImgHeight >= min_box_pixels * Scale

\* add_box_from_drag that records history after the box is in the collection
add_box_from_drag_push_after(s) ==
    LET b == DraggedBox(s)
    IN  IF BigEnough(b) THEN push_history([s EXCEPT !.boxes = Append(s.boxes, b)]) ELSE s

\* AppState::add_box_from_drag
add_box_from_drag(s) ==
    LET b == DraggedBox(s)
    IN  IF BigEnough(b)
        THEN LET pushed == push_history(s)
             IN  [pushed EXCEPT !.boxes = Append(pushed.boxes, b)]
        ELSE s

(***************************************************************************)
(* AppState::update, section by section.  `in` is what the host delivers   *)
(* in one frame: the Ctrl+Z shortcut, the button or list entry clicked,    *)
(* the pointer state, and the outcome of the frame's file operations.      *)
(* action_start is a history variable of the model: the collection at the  *)
(* press that began the move or resize in progress.                        *)
(***************************************************************************)
ValidIdx(i, v) == 0 <= i /\ i < Len(v)

SetAt(v, i, x) == [v EXCEPT ![i + 1] = x]

RemoveAt(v, i) == SubSeq(v, 1, i) \o SubSeq(v, i + 2, Len(v))

\* the top panel: Prev, Next, Save, Reload folder
TopPanel(s, in, env) ==
    CASE in.button = "prev" ->
           LET saved == save_annotations_for_current(s, env)
               idx == IF saved.cur_idx = 0 THEN NumImages - 1 ELSE saved.cur_idx - 1
           IN  load_current_image_texture([saved EXCEPT !.cur_idx = idx], env)
      [] in.button = "next" ->
           LET saved == save_annotations_for_current(s, env)
               idx == (saved.cur_idx + 1) % NumImages
           IN  load_current_image_texture([saved EXCEPT !.cur_idx = idx], env)
      [] in.button = "save" -> save_annotations_for_current(s, env)
      [] in.button = "reload" ->
           load_current_image_texture(load_classes_file([s EXCEPT !.cur_idx = 0]), env)
      [] OTHER -> s

\* the left panel: the class combo, Add, the image list
LeftPanel(s, in, env) ==
    LET idx0 == Min2(s.cur_class_idx, Len(s.classes) - 1)
        idx == IF ValidIdx(in.class_click, s.classes) THEN in.class_click ELSE idx0
        combo == IF s.classes # <<>> THEN [s EXCEPT !.cur_class_idx = idx] ELSE s
        name == in.new_class
        added == IF in.add /\ name # ""
                 THEN LET pushed == IF ~Contains(combo.classes, name)
                                    THEN save_classes_file(
                                           [combo EXCEPT !.classes = Append(combo.classes, name)], env)
                                    ELSE combo
                          pos == Position(pushed.classes, name)
                      IN  [pushed EXCEPT !.cur_class_idx = IF pos = NoneIdx THEN 0 ELSE pos]
                 ELSE combo
    IN  IF in.list_click # NoneIdx
        THEN LET saved == save_annotations_for_current(added, env)
             IN  load_current_image_texture([saved EXCEPT !.cur_idx = in.list_click], env)
        ELSE added

\* the press handler leaving the previous selection in place when no box is hit
PressHandler_keeps_selection(s, in) ==
    IF in.clicked /\ in.pos.some /\ RectContains(in.pos)
    THEN LET found == FindHit(s.boxes, in.pos)
             sel == [s EXCEPT !.selected_box = found]
         IN  IF found # NoneIdx
             THEN LET pushed == push_history(sel)
                  IN  [pushed EXCEPT !.last_pointer_pos = in.pos,
                                     !.drag_mode = ClassifyPress(At(s.boxes, found), in.pos),
                                     !.action_start = s.boxes]
             ELSE push_history([s EXCEPT !.drag_mode = DragCreating,
                                         !.dragging = TRUE,
                                         !.drag_start = in.pos,
                                         !.drag_end = in.pos])
    ELSE s

\* the press handler
PressHandler(s, in) ==
    IF in.clicked /\ in.pos.some /\ RectContains(in.pos)
    THEN LET found == FindHit(s.boxes, in.pos)
             sel == [s EXCEPT !.selected_box = found]
         IN  IF found # NoneIdx
             THEN LET pushed == push_history(sel)
                  IN  [pushed EXCEPT !.last_pointer_pos = in.pos,
                                     !.drag_mode = ClassifyPress(At(s.boxes, found), in.pos),
                                     !.action_start = s.boxes]
             ELSE push_history([sel EXCEPT !.drag_mode = DragCreating,
                                           !.dragging = TRUE,
                                           !.drag_start = in.pos,
                                           !.drag_end = in.pos])
    ELSE s

\* one Moving step of the selected box
MoveBox(b, last, pos) ==
    LET dx == RoundDiv((pos.x - last.x) * Scale, ImgWidth)
        dy == RoundDiv((pos.y - last.y) * Scale, ImgHeight)
    IN  [b EXCEPT !.cx = Clamp(b.cx + dx, 0, Scale), !.cy = Clamp(b.cy + dy, 0, Scale)]

\* a Resizing step that takes the dragged corner as it comes: no min/max of
\* the edges and no floor on the size
ResizeBox_no_normalize(b, corner, pos) ==
    LET left == b.cx - b.w \div 2
        right == b.cx + b.w \div 2
        top == b.cy - b.h \div 2
        bottom == b.cy + b.h \div 2
        rx == Clamp(RoundDiv((pos.x - ImgLeft) * Scale, ImgWidth), 0, Scale)
        ry == Clamp(RoundDiv((pos.y - ImgTop) * Scale, ImgHeight), 0, Scale)
        new_left == IF corner \in {"TL", "BL"} THEN rx ELSE left
        new_right == IF corner \in {"TR", "BR"} THEN rx ELSE right
        new_top == IF corner \in {"TL", "TR"} THEN ry ELSE top
        new_bottom == IF corner \in {"BL", "BR"} THEN ry ELSE bottom
    IN  [b EXCEPT !.cx = (new_left + new_right) \div 2,
                  !.cy = (new_top + new_bottom) \div 2,
                  !.w = new_right - new_left,
                  !.h = new_bottom - new_top]

\* one Resizing step of the selected box
ResizeBox(b, corner, pos) ==
    LET left == b.cx - b.w \div 2
        right == b.cx + b.w \div 2
        top == b.cy - b.h \div 2
        bottom == b.cy + b.h \div 2
        rx == Clamp(RoundDiv((pos.x - ImgLeft) * Scale, ImgWidth), 0, Scale)
        ry == Clamp(RoundDiv((pos.y - ImgTop) * Scale, ImgHeight), 0, Scale)
        new_left == IF corner \in {"TL", "BL"} THEN rx ELSE left
        new_right == IF corner \in {"TR", "BR"} THEN rx ELSE right
        new_top == IF corner \in {"TL", "TR"} THEN ry ELSE top
        new_bottom == IF corner \in {"BL", "BR"} THEN ry ELSE bottom
        nl == Min2(new_left, new_right)
        nr == Max2(new_left, new_right)
        nt == Min2(new_top, new_bottom)
        nb == Max2(new_top, new_bottom)
        nw == Max2(nr - nl, Scale \div 1000)
        nh == Max2(nb - nt, Scale \div 1000)
    IN  [b EXCEPT !.cx = (nl + nr) \div 2,
                  !.cy = (nt + nb) \div 2,
                  !.w = Clamp(nw, Scale \div 10000, Scale),
                  !.h = Clamp(nh, Scale \div 10000, Scale)]

\* the drag updates with a Moving step measured from the press position: the
\* last pointer position is not advanced
DragHandler_keeps_last(s, in) ==
    IF s.drag_mode = DragNone THEN s
    ELSE IF s.drag_mode = DragCreating
    THEN IF in.pos.some THEN [s EXCEPT !.drag_end = in.pos] ELSE s
    ELSE IF s.drag_mode = DragMoving
    THEN IF in.down /\ in.pos.some
         THEN IF s.last_pointer_pos.some
              THEN LET moved == IF ValidIdx(s.selected_box, s.boxes)
                                THEN SetAt(s.boxes, s.selected_box,
                                           MoveBox(At(s.boxes, s.selected_box),
                                                   s.last_pointer_pos, in.pos))
                                ELSE s.boxes
                   IN  [s EXCEPT !.boxes = moved]
              ELSE [s EXCEPT !.last_pointer_pos = in.pos]
         ELSE s
    ELSE IF in.down /\ in.pos.some /\ ValidIdx(s.selected_box, s.boxes)
         THEN [s EXCEPT !.boxes = SetAt(s.boxes, s.selected_box,
                                        ResizeBox(At(s.boxes, s.selected_box),
                                                  s.drag_mode[2], in.pos))]
         ELSE s

\* the drag updates
DragHandler(s, in) ==
    IF s.drag_mode = DragNone THEN s
    ELSE IF s.drag_mode = DragCreating
    THEN IF in.pos.some THEN [s EXCEPT !.drag_end = in.pos] ELSE s
    ELSE IF s.drag_mode = DragMoving
    THEN IF in.down /\ in.pos.some
         THEN IF s.last_pointer_pos.some
              THEN LET moved == IF ValidIdx(s.selected_box, s.boxes)
                                THEN SetAt(s.boxes, s.selected_box,
                                           MoveBox(At(s.boxes, s.selected_box),
                                                   s.last_pointer_pos, in.pos))
                                ELSE s.boxes
                   IN  [s EXCEPT !.boxes = moved, !.last_pointer_pos = in.pos]
              ELSE [s EXCEPT !.last_pointer_pos = in.pos]
         ELSE s
    ELSE IF in.down /\ in.pos.some /\ ValidIdx(s.selected_box, s.boxes)
         THEN [s EXCEPT !.boxes = SetAt(s.boxes, s.selected_box,
                                        ResizeBox(At(s.boxes, s.selected_box),
                                                  s.drag_mode[2], in.pos))]
         ELSE s

\* the release handler without the save that ends a move or resize
ReleaseHandler_no_save(s, in, env) ==
    IF in.released /\ s.drag_mode # DragNone
    THEN LET done == IF s.drag_mode = DragCreating
                     THEN save_annotations_for_current(
                            add_box_from_drag([s EXCEPT !.dragging = FALSE]), env)
                     ELSE s
         IN  [done EXCEPT !.drag_mode = DragNone,
                          !.last_pointer_pos = NoPos,
                          !.action_start = <<>>]
    ELSE s

\* the release handler returning at a failed save, as `?` would
ReleaseHandler_returns_on_error(s, in, env) ==
    IF in.released /\ s.drag_mode # DragNone
    THEN LET done == IF s.drag_mode = DragCreating
                     THEN save_annotations_for_current(
                            add_box_from_drag([s EXCEPT !.dragging = FALSE]), env)
                     ELSE save_annotations_for_current(s, env)
         IN  IF env.write_ok
             THEN [done EXCEPT !.drag_mode = DragNone,
                               !.last_pointer_pos = NoPos,
                               !.action_start = <<>>]
             ELSE done
    ELSE s

\* the release handler
ReleaseHandler(s, in, env) ==
    IF in.released /\ s.drag_mode # DragNone
    THEN LET done == IF s.drag_mode = DragCreating
                     THEN save_annotations_for_current(
                            add_box_from_drag([s EXCEPT !.dragging = FALSE]), env)
                     ELSE save_annotations_for_current(s, env)
         IN  [done EXCEPT !.drag_mode = DragNone,
                          !.last_pointer_pos = NoPos,
                          !.action_start = <<>>]
    ELSE s

\* "Delete Selected Box" that leaves the selection on the removed index
DeleteSelected_keeps_selection(s, in, env) ==
    IF in.delete /\ s.selected_box # NoneIdx /\ s.selected_box < Len(s.boxes)
    THEN LET pushed == push_history(s)
         IN  save_annotations_for_current(
               [pushed EXCEPT !.boxes = RemoveAt(pushed.boxes, pushed.selected_box)], env)
    ELSE s

\* "Delete Selected Box"
DeleteSelected(s, in, env) ==
    IF in.delete /\ s.selected_box # NoneIdx /\ s.selected_box < Len(s.boxes)
    THEN LET pushed == push_history(s)
         IN  save_annotations_for_current(
               [pushed EXCEPT !.boxes = RemoveAt(pushed.boxes, pushed.selected_box),
                              !.selected_box = NoneIdx], env)
    ELSE s

\* "Duplicate Selected Box"
DuplicateSelected(s, in, env) ==
    IF in.duplicate /\ s.selected_box # NoneIdx
    THEN LET pushed == push_history(s)
         IN  IF ValidIdx(pushed.selected_box, pushed.boxes)
             THEN save_annotations_for_current(
                    [pushed EXCEPT !.boxes = Append(pushed.boxes,
                                                    At(pushed.boxes, pushed.selected_box))], env)
             ELSE pushed
    ELSE s

\* "Selected box controls": runs in every frame that ends with a selection
SelectedControls(s, in, env) ==
    IF s.selected_box # NoneIdx
    THEN LET pushed == push_history(s)
             idx == pushed.selected_box
         IN  IF ValidIdx(idx, pushed.boxes)
             THEN LET b == At(pushed.boxes, idx)
                      pos == Position(pushed.classes, b.class_name)
                      sel0 == IF pos = NoneIdx THEN 0 ELSE pos
                      sel == IF ValidIdx(in.sel_click, pushed.classes)
                             THEN in.sel_click ELSE sel0
                      name1 == At(pushed.classes, sel)
                      name2 == IF in.assign THEN At(pushed.classes, pushed.cur_class_idx)
                               ELSE name1
                      need_save == b.class_name # name1 \/ in.assign
                      changed == [pushed EXCEPT !.boxes =
                                    SetAt(pushed.boxes, idx, [b EXCEPT !.class_name = name2])]
                  IN  IF need_save THEN save_annotations_for_current(changed, env)
                      ELSE changed
             ELSE pushed
    ELSE s

\* the central panel, drawn only when a texture is loaded
CentralPanel(s, in, env) ==
    IF ~s.texture THEN s
    ELSE SelectedControls(
           DuplicateSelected(
             DeleteSelected(
               ReleaseHandler(DragHandler(PressHandler(s, in), in), in, env),
               in, env),
             in, env),
           in, env)

\* AppState::update
update(s, in) ==
    LET env == Env(in.write_ok, in.decode_ok)
        undone == IF in.ctrl_z THEN undo(s, env) ELSE s
    IN  CentralPanel(LeftPanel(TopPanel(undone, in, env), in, env), in, env)

(***************************************************************************)
(* State.                                                                  *)
(***************************************************************************)
VARIABLES cur_idx, texture, dragging, drag_start, drag_end, boxes, classes,
          cur_class_idx, selected_box, drag_mode, last_pointer_pos, history,
          ann, labels, history_img, action_start, frames

vars == <<cur_idx, texture, dragging, drag_start, drag_end, boxes, classes,
          cur_class_idx, selected_box, drag_mode, last_pointer_pos, history,
          ann, labels, history_img, action_start, frames>>

\* the state as the record the operators above work on
St ==
    [cur_idx |-> cur_idx, texture |-> texture, dragging |-> dragging,
     drag_start |-> drag_start, drag_end |-> drag_end, boxes |-> boxes,
     classes |-> classes, cur_class_idx |-> cur_class_idx,
     selected_box |-> selected_box, drag_mode |-> drag_mode,
     last_pointer_pos |-> last_pointer_pos, history |-> history,
     ann |-> ann, labels |-> labels, history_img |-> history_img,
     action_start |-> action_start]

Becomes(s) ==
    /\ cur_idx' = s.cur_idx /\ texture' = s.texture /\ dragging' = s.dragging
    /\ drag_start' = s.drag_start /\ drag_end' = s.drag_end /\ boxes' = s.boxes
    /\ classes' = s.classes /\ cur_class_idx' = s.cur_class_idx
    /\ selected_box' = s.selected_box /\ drag_mode' = s.drag_mode
    /\ last_pointer_pos' = s.last_pointer_pos /\ history' = s.history
    /\ ann' = s.ann /\ labels' = s.labels /\ history_img' = s.history_img
    /\ action_start' = s.action_start

Is(s) ==
    /\ cur_idx = s.cur_idx /\ texture = s.texture /\ dragging = s.dragging
    /\ drag_start = s.drag_start /\ drag_end = s.drag_end /\ boxes = s.boxes
    /\ classes = s.classes /\ cur_class_idx = s.cur_class_idx
    /\ selected_box = s.selected_box /\ drag_mode = s.drag_mode
    /\ last_pointer_pos = s.last_pointer_pos /\ history = s.history
    /\ ann = s.ann /\ labels = s.labels /\ history_img = s.history_img
    /\ action_start = s.action_start

\* impl Default for AppState, over the directory's files
Default(disk_ann, disk_labels) ==
    [cur_idx |-> 0, texture |-> FALSE, dragging |-> FALSE,
     drag_start |-> SomePos(0, 0), drag_end |-> SomePos(0, 0), boxes |-> <<>>,
     classes |-> <<"object">>, cur_class_idx |-> 0, selected_box |-> NoneIdx,
     drag_mode |-> DragNone, last_pointer_pos |-> NoPos, history |-> <<>>,
     ann |-> disk_ann, labels |-> disk_labels, history_img |-> <<>>,
     action_start |-> <<>>]

\* main: the label file is read, then the first image is shown
Startup(disk_ann, disk_labels, decode_ok) ==
    load_current_image_texture(load_classes_file(Default(disk_ann, disk_labels)),
                               Env(TRUE, decode_ok))

(***************************************************************************)
(* The inputs of a frame.                                                  *)
(***************************************************************************)
NoInput ==
    [ctrl_z |-> FALSE, button |-> "none", class_click |-> NoneIdx, add |-> FALSE,
     new_class |-> "", list_click |-> NoneIdx, clicked |-> FALSE, down |-> FALSE,
     released |-> FALSE, pos |-> NoPos, delete |-> FALSE, duplicate |-> FALSE,
     sel_click |-> NoneIdx, assign |-> FALSE, write_ok |-> TRUE, decode_ok |-> TRUE]

P1 == SomePos(15, 20)
P2 == SomePos(55, 35)
P3 == SomePos(95, 50)
PressPositions == {P1, P2, P3}
DragPositions == {P1, P3}
ReleasePositions == {P1, P3}
ClickPositions == {P2}

ClassSlots == 3
ClassNames == {"car"}
ImageIdx == 0..(NumImages - 1)

CtrlZInput == [NoInput EXCEPT !.ctrl_z = TRUE]
PressInput(p) == [NoInput EXCEPT !.clicked = TRUE, !.down = TRUE, !.pos = p]
DragInput(p) == [NoInput EXCEPT !.down = TRUE, !.pos = p]
ReleaseInput(p) == [NoInput EXCEPT !.released = TRUE, !.pos = p]
ClickInput(p) == [NoInput EXCEPT !.clicked = TRUE, !.released = TRUE, !.pos = p]
ButtonInput(b, ok) == [NoInput EXCEPT !.button = b, !.decode_ok = ok]
ListInput(i, ok) == [NoInput EXCEPT !.list_click = i, !.decode_ok = ok]
AddInput(n) == [NoInput EXCEPT !.add = TRUE, !.new_class = n]
ClassInput(i) == [NoInput EXCEPT !.class_click = i]
DeleteInput == [NoInput EXCEPT !.delete = TRUE]
DuplicateInput == [NoInput EXCEPT !.duplicate = TRUE]
ReassignInput(i) == [NoInput EXCEPT !.sel_click = i]
AssignInput == [NoInput EXCEPT !.assign = TRUE]
SaveInput == ButtonInput("save", TRUE)

\* one frame: AppState::update on the input `in`; a session is followed for
\* MaxFrames frames
Frame(in) ==
    /\ frames' = frames + 1
    /\ Becomes(update(St, in))

Budget == frames < MaxFrames

(***************************************************************************)
(* The editor: every frame delivers at most one event.                     *)
(***************************************************************************)
InitLabels == {NoFile}
FileBox == Line(IdTok(0), << <<500000>>, <<500000>>, <<800000>>, <<600000>> >>)
InitAnn == {[i \in ImageIdx |-> IF i = k THEN FileOf(<<FileBox>>) ELSE NoFile] : k \in 0..1}

Init ==
    \E a \in InitAnn, l \in InitLabels, ok \in BOOLEAN :
        Is(Startup(a, l, ok)) /\ frames = 0

Idle ==
    /\ Budget
    /\ Frame(NoInput)

CtrlZ ==
    /\ Budget
    /\ Frame(CtrlZInput)

Press ==
    /\ Budget
    /\ \E p \in PressPositions : Frame(PressInput(p))

Drag ==
    /\ Budget
    /\ \E p \in DragPositions : Frame(DragInput(p))

Release ==
    /\ Budget
    /\ \E p \in ReleasePositions : Frame(ReleaseInput(p))

Click ==
    /\ Budget
    /\ \E p \in ClickPositions : Frame(ClickInput(p))

Prev ==
    /\ Budget
    /\ \E ok \in BOOLEAN : Frame(ButtonInput("prev", ok))

NextImage ==
    /\ Budget
    /\ \E ok \in BOOLEAN : Frame(ButtonInput("next", ok))

Save ==
    /\ Budget
    /\ Frame(ButtonInput("save", TRUE))

Reload ==
    /\ Budget
    /\ \E ok \in BOOLEAN : Frame(ButtonInput("reload", ok))

ListClick ==
    /\ Budget
    /\ \E i \in ImageIdx, ok \in BOOLEAN : Frame(ListInput(i, ok))

AddClass ==
    /\ Budget
    /\ \E n \in ClassNames : Frame(AddInput(n))

SelectClass ==
    /\ Budget
    /\ \E i \in 0..(ClassSlots - 1) : Frame(ClassInput(i))

Delete ==
    /\ Budget
    /\ Frame(DeleteInput)

Duplicate ==
    /\ Budget
    /\ Frame(DuplicateInput)

Reassign ==
    /\ Budget
    /\ \E i \in 0..(ClassSlots - 1) : Frame(ReassignInput(i))

Assign ==
    /\ Budget
    /\ Frame(AssignInput)

Next ==
    \/ Idle \/ CtrlZ \/ Press \/ Drag \/ Release \/ Click
    \/ Prev \/ NextImage \/ Save \/ Reload \/ ListClick
    \/ AddClass \/ SelectClass \/ Delete \/ Duplicate \/ Reassign \/ Assign

Spec == Init /\ [][Next]_vars

(***************************************************************************)
(* A long session on one image: the pointer presses and releases, frames   *)
(* pass and Ctrl+Z is pressed, for as long as the user likes.  A press     *)
(* follows a release.  The frames are not counted.                         *)
(***************************************************************************)
Step(in) ==
    /\ frames' = frames
    /\ Becomes(update(St, in))

InitEvict ==
    /\ Is(Startup([i \in ImageIdx |-> NoFile], NoFile, TRUE))
    /\ frames = 0

EvictPress ==
    /\ drag_mode = DragNone
    /\ Step(PressInput(P1))

EvictRelease ==
    /\ drag_mode # DragNone
    /\ Step(ReleaseInput(P3))

EvictIdle ==
    /\ selected_box # NoneIdx
    /\ Step(NoInput)

EvictCtrlZ ==
    /\ history # <<>>
    /\ Step(CtrlZInput)

NextEvict == EvictPress \/ EvictRelease \/ EvictIdle \/ EvictCtrlZ

SpecEvict == InitEvict /\ [][NextEvict]_vars

(***************************************************************************)
(* The files a directory may hold when the editor starts on it: label      *)
(* files with and without "object" first, with a blank line and with a     *)
(* repeated name; annotation files with numeric and text tokens, a blank   *)
(* line, a short line and a field that is no number.                       *)
(***************************************************************************)
Vals == FileBox.vals
CodecLabels ==
    {NoFile, FileOf(<<"object", "car">>), FileOf(<<"car", "", "car">>)}
CodecFiles ==
    {NoFile,
     FileOf(<<FileBox>>),
     FileOf(<<Line(IdTok(1), Vals), BlankLine, Line(NameTok("big_car"), Vals)>>),
     FileOf(<<Line(IdTok(2), <<Vals[1], <<>>, Vals[3], Vals[4]>>),
              Line(IdTok(0), <<Vals[1], Vals[2]>>)>>)}

InitCodec ==
    \E f \in CodecFiles, l \in CodecLabels :
        /\ Is(Startup([i \in ImageIdx |-> IF i = 0 THEN f ELSE NoFile], l, TRUE))
        /\ frames = 0

NextCodec ==
    \/ Press \/ Release \/ CtrlZ
    \/ NextImage \/ Save \/ Reload
    \/ AddClass \/ SelectClass \/ Reassign

SpecCodec == InitCodec /\ [][NextCodec]_vars

(***************************************************************************)
(* The first drag of a session on an empty image: a press inside the image *)
(* rectangle, and a release anywhere on a grid of positions that lie       *)
(* inside the rectangle, on its border and outside it, 5 and 6 pixels      *)
(* apart near the corner.                                                  *)
(***************************************************************************)
GridX == {-3, 5, 10, 11, 105, 120}
GridY == {0, 10, 15, 16, 60, 75}
DrawGrid == {SomePos(x, y) : x \in GridX, y \in GridY}

DrawPress ==
    /\ history = <<>>
    /\ \E p \in DrawGrid : RectContains(p) /\ Step(PressInput(p))

DrawRelease ==
    /\ drag_mode # DragNone
    /\ \E q \in DrawGrid : Step(ReleaseInput(q))

NextDraw == DrawPress \/ DrawRelease

SpecDraw == InitEvict /\ [][NextDraw]_vars

(***************************************************************************)
(* Resizing the box of image 0: a press on one of its four corners, drag   *)
(* steps to its corners and to points beyond them outside the image, and   *)
(* the release.                                                            *)
(***************************************************************************)
CornerTL == SomePos(15, 20)
CornerTR == SomePos(95, 20)
CornerBL == SomePos(15, 50)
CornerBR == SomePos(95, 50)
Corners == {CornerTL, CornerTR, CornerBL, CornerBR}
ResizeTargets == {SomePos(0, 5), SomePos(110, 65), CornerTL, CornerBR}
ResizeGrid == {SomePos(x, y) : x \in {0, 15, 55, 95, 110}, y \in {5, 20, 35, 50, 65}}

InitResize ==
    /\ Is(Startup([i \in ImageIdx |-> IF i = 0 THEN FileOf(<<FileBox>>) ELSE NoFile],
                  NoFile, TRUE))
    /\ frames = 0

ResizePress ==
    /\ Budget
    /\ drag_mode = DragNone
    /\ \E p \in Corners : Frame(PressInput(p))

ResizeDrag ==
    /\ Budget
    /\ drag_mode # DragNone
    /\ \E p \in ResizeTargets : Frame(DragInput(p))

ResizeRelease ==
    /\ Budget
    /\ drag_mode # DragNone
    /\ \E p \in ResizeTargets : Frame(ReleaseInput(p))

NextResize == ResizePress \/ ResizeDrag \/ ResizeRelease

SpecResize == InitResize /\ [][NextResize]_vars

(***************************************************************************)
(* The editor on a directory where a File::create may fail in any frame.   *)
(***************************************************************************)
WriteFails(in) == [in EXCEPT !.write_ok = FALSE]
Writes(in) == {in, WriteFails(in)}

FailPress ==
    /\ Budget
    /\ \E p \in PressPositions : Frame(PressInput(p))

FailDrag ==
    /\ Budget
    /\ \E p \in DragPositions : Frame(DragInput(p))

FailRelease ==
    /\ Budget
    /\ \E p \in ReleasePositions : \E in \in Writes(ReleaseInput(p)) : Frame(in)

FailCtrlZ ==
    /\ Budget
    /\ \E in \in Writes(CtrlZInput) : Frame(in)

FailDelete ==
    /\ Budget
    /\ \E in \in Writes(DeleteInput) : Frame(in)

FailDuplicate ==
    /\ Budget
    /\ \E in \in Writes(DuplicateInput) : Frame(in)

FailReassign ==
    /\ Budget
    /\ \E i \in 0..(ClassSlots - 1) : \E in \in Writes(ReassignInput(i)) : Frame(in)

FailSave ==
    /\ Budget
    /\ \E in \in Writes(ButtonInput("save", TRUE)) : Frame(in)

FailAddClass ==
    /\ Budget
    /\ \E n \in ClassNames : \E in \in Writes(AddInput(n)) : Frame(in)

FailReload ==
    /\ Budget
    /\ \E in \in Writes(ButtonInput("reload", TRUE)) : Frame(in)

NextFail ==
    \/ FailPress \/ FailDrag \/ FailRelease \/ FailCtrlZ \/ FailDelete
    \/ FailDuplicate \/ FailReassign \/ FailSave \/ FailAddClass \/ FailReload

SpecFail == Init /\ [][NextFail]_vars

(***************************************************************************)
(* Presses and releases on an image whose annotation file holds boxes that *)
(* overlap: a large box and a small one inside it, in both orders, and a   *)
(* tall narrow box with a wide flat box, smaller than two handle radii in  *)
(* one direction.  An empty area is left at the bottom right.              *)
(***************************************************************************)
LargeBox == FileBox
SmallBox == Line(IdTok(0), << <<500000>>, <<500000>>, <<100000>>, <<200000>> >>)
TallBox == Line(IdTok(0), << <<200000>>, <<500000>>, <<100000>>, <<800000>> >>)
FlatBox == Line(IdTok(0), << <<500000>>, <<200000>>, <<800000>>, <<200000>> >>)
HitFiles ==
    {FileOf(<<LargeBox, SmallBox>>), FileOf(<<SmallBox, LargeBox>>),
     FileOf(<<TallBox, FlatBox>>), FileOf(<<FlatBox, TallBox>>)}

HitGrid == {SomePos(x, y) : x \in {15, 25, 55, 95}, y \in {20, 35, 55}}

InitHit ==
    \E f \in HitFiles :
        /\ Is(Startup([i \in ImageIdx |-> IF i = 0 THEN f ELSE NoFile], NoFile, TRUE))
        /\ frames = 0

HitPress ==
    /\ Budget
    /\ drag_mode = DragNone
    /\ \E p \in HitGrid : Frame(PressInput(p))

HitRelease ==
    /\ Budget
    /\ drag_mode # DragNone
    /\ \E p \in {P1, P3} : Frame(ReleaseInput(p))

NextHit == HitPress \/ HitRelease

SpecHit == InitHit /\ [][NextHit]_vars

(***************************************************************************)
(* Moving the box of image 0: a press in its middle, then drags to points  *)
(* inside and far outside the image, so that the centre reaches both ends  *)
(* of [0, 1].                                                              *)
(***************************************************************************)
MoveTargets == {SomePos(x, y) : x \in {-45, 15, 55, 155}, y \in {-25, 35, 95}}

MovePress ==
    /\ Budget
    /\ drag_mode = DragNone
    /\ Frame(PressInput(P2))

MoveDrag ==
    /\ Budget
    /\ drag_mode # DragNone
    /\ \E q \in MoveTargets : Frame(DragInput(q))

MoveRelease ==
    /\ Budget
    /\ drag_mode # DragNone
    /\ \E q \in MoveTargets : Frame(ReleaseInput(q))

NextMove == MovePress \/ MoveDrag \/ MoveRelease

SpecMove == InitResize /\ [][NextMove]_vars

(***************************************************************************)
(* Switching to an image whose annotation file has a malformed line before *)
(* a well-formed one: a numeric id with a field that is no float, a name   *)
(* with a field that is no float, and a line of three fields.  The image   *)
(* may fail to decode.                                                     *)
(***************************************************************************)
NoFloat == <<Vals[1], <<>>, Vals[3], Vals[4]>>
MalformedFiles ==
    {FileOf(<<Line(IdTok(2), NoFloat), FileBox>>),
     FileOf(<<Line(NameTok("car"), NoFloat), FileBox>>),
     FileOf(<<Line(IdTok(2), <<Vals[1], Vals[2]>>), FileBox>>)}

InitLoad ==
    \E f \in {NoFile, FileOf(<<FileBox>>)}, g \in MalformedFiles,
       l \in {NoFile, FileOf(<<"car">>)} :
        /\ Is(Startup([i \in ImageIdx |-> IF i = 0 THEN f
                                          ELSE IF i = 1 THEN g ELSE NoFile], l, TRUE))
        /\ frames = 0

LoadNext ==
    /\ Budget
    /\ \E ok \in BOOLEAN : Frame(ButtonInput("next", ok))

LoadPrev ==
    /\ Budget
    /\ \E ok \in BOOLEAN : Frame(ButtonInput("prev", ok))

LoadReload ==
    /\ Budget
    /\ \E ok \in BOOLEAN : Frame(ButtonInput("reload", ok))

LoadSave ==
    /\ Budget
    /\ Frame(SaveInput)

LoadPress ==
    /\ Budget
    /\ drag_mode = DragNone
    /\ \E p \in {P1, P2} : Frame(PressInput(p))

LoadRelease ==
    /\ Budget
    /\ drag_mode # DragNone
    /\ Frame(ReleaseInput(P3))

LoadCtrlZ ==
    /\ Budget
    /\ history # <<>>
    /\ Frame(CtrlZInput)

NextLoad ==
    \/ LoadNext \/ LoadPrev \/ LoadReload \/ LoadSave
    \/ LoadPress \/ LoadRelease \/ LoadCtrlZ

SpecLoad == InitLoad /\ [][NextLoad]_vars

(***************************************************************************)
(* What the claims speak of.                                               *)
(***************************************************************************)
\* the inputs of the frames that switch the image, and of those that commit
SwitchInputs ==
    {ButtonInput(b, ok) : b \in {"prev", "next"}, ok \in BOOLEAN}
      \cup {ListInput(i, ok) : i \in ImageIdx, ok \in BOOLEAN}

CommitInputs ==
    {CtrlZInput, DeleteInput, DuplicateInput, AssignInput}
      \cup {ReleaseInput(p) : p \in ReleasePositions}
      \cup {ClickInput(p) : p \in ClickPositions}
      \cup {ReassignInput(i) : i \in 0..(ClassSlots - 1)}

\* b as a file holds it: its coordinates at 6 decimals
Rounded(b) ==
    [b EXCEPT !.cx = ParseF32(<<Fmt6(b.cx)>>), !.cy = ParseF32(<<Fmt6(b.cy)>>),
              !.w = ParseF32(<<Fmt6(b.w)>>), !.h = ParseF32(<<Fmt6(b.h)>>)]

\* the line of box b under class table cl: the index of its class, less the offset
LineFor(b, cl) ==
    Line(IdTok(WrittenId(Position(cl, b.class_name), cl)),
         << <<Fmt6(b.cx)>>, <<Fmt6(b.cy)>>, <<Fmt6(b.w)>>, <<Fmt6(b.h)>> >>)

\* the file that holds one line per box of bs, in order
FileFor(bs, cl) == FileOf([i \in 1..Len(bs) |-> LineFor(bs[i], cl)])

\* the boxes a file parses to under class table cl
ParsedBoxes(f, cl) ==
    IF f.exists THEN LoadLoop(f.lines, 1, ObjectOffset(cl), cl, <<>>).boxes ELSE <<>>

Ok == Env(TRUE, TRUE)

\* the collection after one Ctrl+Z frame in state s
AfterUndo(s) == update(s, CtrlZInput).boxes

(***************************************************************************)
(* C1.  A single undo after a successful box creation (a release in        *)
(* Creating mode that appends a box) yields the collection as it was       *)
(* before that creation, which is the collection right after the previous  *)
(* creation: A, then B, then undo leaves [A].                              *)
(***************************************************************************)
CreationStep ==
    /\ drag_mode = DragCreating
    /\ \E p \in ReleasePositions : St' = update(St, ReleaseInput(p))
    /\ Len(boxes') = Len(boxes) + 1

C1_UndoAfterCreation ==
    [][CreationStep => AfterUndo(St') = boxes]_vars

\* two boxes drawn in this session, and one undo gives back the first alone
C1_Witness ==
    /\ Len(boxes) = 2 /\ Len(history) = 4
    /\ history[1] = <<>> /\ history[2] = <<>>
    /\ history[3] = <<boxes[1]>> /\ history[4] = <<boxes[1]>>
    /\ drag_mode = DragNone
    /\ AfterUndo(St) = <<boxes[1]>>

(***************************************************************************)
(* C2.  Saving the collection and loading the written file with the same   *)
(* class table gives back the collection: same class names, same order,    *)
(* coordinates at 6 decimals.                                              *)
(***************************************************************************)
C2_SaveLoadRoundTrip ==
    LET saved == save_annotations_for_current(St, Ok)
        loaded == load_annotations_for_current(saved, Ok)
    IN  loaded.boxes = [i \in 1..Len(boxes) |-> Rounded(boxes[i])]

(***************************************************************************)
(* C3.  A snapshot is pushed once per user action and never on a frame     *)
(* where no action starts: no frame grows the stack by more than one, and  *)
(* a frame without input or with a drag movement only leaves it alone.     *)
(***************************************************************************)
C3_OnePushPerAction ==
    [][/\ Len(history') <= Len(history) + 1
       /\ St' = update(St, NoInput) => history' = history
       /\ \A p \in DragPositions :
            St' = update(St, DragInput(p)) => history' = history]_vars

(***************************************************************************)
(* C4.  A single undo after a completed move or resize (the release that   *)
(* ends it) or after a duplicate gives the collection as it was when the   *)
(* action began.                                                           *)
(***************************************************************************)
C4_UndoRestoresActionStart ==
    [][/\ \A p \in ReleasePositions :
            (/\ drag_mode[1] \in {"Moving", "Resizing"}
             /\ St' = update(St, ReleaseInput(p)))
            => AfterUndo(St') = action_start
       /\ (St' = update(St, DuplicateInput) /\ Len(boxes') = Len(boxes) + 1)
            => AfterUndo(St') = boxes]_vars

(***************************************************************************)
(* C5.  With writes succeeding, after every committing frame (a release    *)
(* that ends a create, move or resize, a delete, a duplicate, a class      *)
(* reassignment, an undo) the current image's file holds one line per box  *)
(* of the live collection, in order; and a switch of image leaves the      *)
(* file of the image it left with one line per box that was live.          *)
(***************************************************************************)
Commits(s, in) ==
    \/ in.ctrl_z /\ s.history # <<>>
    \/ /\ s.texture
       /\ \/ in.released /\ s.drag_mode # DragNone
          \/ in.released /\ in.clicked /\ RectContains(in.pos)
          \/ in.delete /\ ValidIdx(s.selected_box, s.boxes)
          \/ in.duplicate /\ ValidIdx(s.selected_box, s.boxes)
          \/ /\ in.assign \/ in.sel_click # NoneIdx
             /\ ValidIdx(s.selected_box, s.boxes)
             /\ update(s, in).boxes # s.boxes

Persisted == ann[cur_idx] = FileFor(boxes, classes)

PersistedIn(s) == s.ann[s.cur_idx] = FileFor(s.boxes, s.classes)

C5_CommittedEditsPersisted ==
    /\ \A in \in CommitInputs :
         Commits(St, in) => PersistedIn(update(St, in))
    /\ \A in \in SwitchInputs :
         LET s == update(St, in)
         IN  s.ann[cur_idx] = FileFor(boxes, s.classes)

\* a moved box whose file line holds the moved position, and an image left
\* behind whose file holds its box
C5_Witness ==
    /\ boxes # <<>> /\ Persisted /\ drag_mode = DragNone
    /\ selected_box # NoneIdx
    /\ history # <<>> /\ history[1] # boxes
    /\ Len(history[1]) = Len(boxes)

(***************************************************************************)
(* C6.  A switch of image writes the collection to the file of the image   *)
(* it leaves, clears selection and drag mode, and leaves the collection    *)
(* holding the boxes parsed from the new image's file, none when the file  *)
(* is missing.                                                             *)
(***************************************************************************)
C6_PersistThenReset ==
    \A in \in SwitchInputs :
      LET s == update(St, in)
      IN  /\ s.ann[cur_idx] = FileFor(boxes, s.classes)
          /\ s.selected_box = NoneIdx /\ s.drag_mode = DragNone
          /\ s.boxes = ParsedBoxes(s.ann[s.cur_idx],
                                   save_annotations_for_current(St, Ok).classes)

(***************************************************************************)
(* C7.  The history stack holds no snapshot taken while another image was  *)
(* current.                                                                *)
(***************************************************************************)
C7_HistoryOfCurrentImage ==
    \A i \in 1..Len(history_img) : history_img[i] = cur_idx

(***************************************************************************)
(* C9.  Undo on an empty history stack changes nothing: the collection,    *)
(* the selection, the drag mode and the files stay as they are, for the    *)
(* call of undo and for the whole Ctrl+Z frame.                            *)
(***************************************************************************)
C9_UndoOnEmptyIsNoOp ==
    history = <<>> =>
      /\ undo(St, Ok) = St
      /\ LET s == update(St, CtrlZInput)
         IN  /\ s.boxes = boxes /\ s.selected_box = selected_box
             /\ s.drag_mode = drag_mode /\ s.ann = ann /\ s.labels = labels
             /\ s.history = <<>>

\* the stack was emptied by an undo in the middle of a creation drag, and a
\* further Ctrl+Z frame has found it empty
C9_Witness ==
    /\ history = <<>> /\ drag_mode = DragCreating /\ frames >= 3
    /\ update(St, CtrlZInput) = St

(***************************************************************************)
(* C8.  The history stack never holds more than history_limit snapshots;   *)
(* a push on a full stack drops the oldest snapshot and keeps the rest in  *)
(* order; and from a full stack, history_limit Ctrl+Z frames leave the     *)
(* collection at the oldest retained snapshot with the stack empty, and    *)
(* one more Ctrl+Z frame changes nothing.                                  *)
(***************************************************************************)
\* the state after n Ctrl+Z frames from s: the first half of them, then the
\* rest (the length test has TLC compute the state in between once)
RECURSIVE CtrlZTimes(_, _)
CtrlZTimes(s, n) ==
    IF n = 0 THEN s
    ELSE IF n = 1 THEN update(s, CtrlZInput)
    ELSE LET half == CtrlZTimes(s, n \div 2)
         IN  IF Len(half.history) >= 0 THEN CtrlZTimes(half, n - n \div 2) ELSE half

C8_HistoryCapacity ==
    /\ Len(history) <= history_limit
    /\ Len(history) = history_limit =>
         /\ push_history(St).history = Tail(history) \o <<boxes>>
         /\ LET s == CtrlZTimes(St, history_limit)
            IN  /\ s.boxes = history[1]
                /\ s.history = <<>>
                /\ update(s, CtrlZInput) = s

\* a full stack whose oldest snapshot is no longer the empty collection the
\* session began with: history_limit undos end on a collection with a box
C8_Witness ==
    /\ Len(history) = history_limit
    /\ history[1] # <<>>
    /\ CtrlZTimes(St, history_limit + 1).boxes = history[1]

(***************************************************************************)
(* C10.  A numeric token n whose offset id is within the class table at    *)
(* load time comes back as n: loading a file that holds the line           *)
(* "n cx cy w h" and saving the collection writes a line with the id n.    *)
(***************************************************************************)
MaxToken == 2

TokenRoundTrip(s, n) ==
    LET f == FileOf(<<Line(IdTok(n), Vals)>>)
        loaded == load_annotations_for_current(
                    [s EXCEPT !.ann = [s.ann EXCEPT ![s.cur_idx] = f]], Ok)
        saved == save_annotations_for_current(loaded, Ok)
    IN  saved.ann[s.cur_idx].lines[1].tok = IdTok(n)

C10_NumericIdRoundTrip ==
    \A n \in 0..MaxToken :
        n + ObjectOffset(classes) < Len(classes) => TokenRoundTrip(St, n)

(***************************************************************************)
(* C11.  No class name occurs at two indices of the class table.           *)
(***************************************************************************)
C11_ClassNamesUnique ==
    \A i, j \in 1..Len(classes) : classes[i] = classes[j] => i = j

(***************************************************************************)
(* C12.  A selection index that is set is smaller than the number of boxes *)
(* of the collection; and a frame that replaces or shrinks the collection  *)
(* (an undo that pops, a delete, a switch of image, a reload of the        *)
(* folder) ends with no selection.                                         *)
(***************************************************************************)
ReloadInputs == {ButtonInput("reload", ok) : ok \in BOOLEAN}

C12_NoStaleSelection ==
    /\ selected_box # NoneIdx => ValidIdx(selected_box, boxes)
    /\ history # <<>> => update(St, CtrlZInput).selected_box = NoneIdx
    /\ (texture /\ ValidIdx(selected_box, boxes))
         => update(St, DeleteInput).selected_box = NoneIdx
    /\ \A in \in SwitchInputs \cup ReloadInputs :
         update(St, in).selected_box = NoneIdx

\* the last box is selected, and the delete frame leaves a collection that
\* no longer has that index, with the selection cleared
C12_Witness ==
    /\ texture /\ ValidIdx(selected_box, boxes)
    /\ LET s == update(St, DeleteInput)
       IN  Len(s.boxes) = selected_box /\ s.selected_box = NoneIdx

(***************************************************************************)
(* C13.  A release that ends a creation drag appends no box when the       *)
(* clamped drag is less than min_box_pixels wide or high, and otherwise    *)
(* appends exactly one box, after the boxes there were, whose cx, cy, w    *)
(* and h lie in [0, 1], wherever the release position lies.                *)
(***************************************************************************)
ClampedX(pos) == Clamp(pos.x - ImgLeft, 0, ImgWidth)
ClampedY(pos) == Clamp(pos.y - ImgTop, 0, ImgHeight)

InUnit(b) == \A v \in {b.cx, b.cy, b.w, b.h} : 0 <= v /\ v <= Scale

C13_CreationFromDrag ==
    drag_mode = DragCreating =>
      \A q \in DrawGrid :
        LET s == update(St, ReleaseInput(q))
            pw == Abs(ClampedX(q) - ClampedX(drag_start))
            ph == Abs(ClampedY(q) - ClampedY(drag_start))
        IN  IF pw < min_box_pixels \/ ph < min_box_pixels
            THEN s.boxes = boxes
            ELSE /\ Len(s.boxes) = Len(boxes) + 1
                 /\ SubSeq(s.boxes, 1, Len(boxes)) = boxes
                 /\ InUnit(s.boxes[Len(s.boxes)])

\* a box drawn by a drag released beyond the top right corner of the image:
\* it ends on the right and top edges
C13_Witness ==
    /\ drag_mode = DragNone /\ Len(boxes) = 1
    /\ drag_end.x > ImgLeft + ImgWidth /\ drag_end.y < ImgTop
    /\ 2 * boxes[1].cx + boxes[1].w = 2 * Scale
    /\ 2 * boxes[1].cy - boxes[1].h = 0
    /\ InUnit(boxes[1])

(***************************************************************************)
(* C14.  After a resize drag step from any corner to any position, also    *)
(* one beyond the opposite corner, the selected box has w > 0 and h > 0,   *)
(* so its left edge lies left of its right edge and its top above its      *)
(* bottom.                                                                 *)
(***************************************************************************)
NotInverted(b) ==
    /\ b.w > 0 /\ b.h > 0
    /\ 2 * b.cx - b.w < 2 * b.cx + b.w
    /\ 2 * b.cy - b.h < 2 * b.cy + b.h

C14_ResizeNeverInverts ==
    (drag_mode[1] = "Resizing" /\ ValidIdx(selected_box, boxes)) =>
      /\ NotInverted(At(boxes, selected_box))
      /\ \A q \in ResizeGrid :
           NotInverted(At(update(St, DragInput(q)).boxes, selected_box))

\* the bottom right corner was dragged beyond the top left corner: the box
\* now lies between the image's top left corner and where its own was
C14_Witness ==
    /\ drag_mode = DragResizing("BR") /\ selected_box = 0 /\ Len(boxes) = 1
    /\ 2 * boxes[1].cx - boxes[1].w = 0
    /\ 2 * boxes[1].cy - boxes[1].h = 0
    /\ 2 * boxes[1].cx + boxes[1].w = 2 * ParseF32(Vals[1]) - ParseF32(Vals[3])
    /\ 2 * boxes[1].cy + boxes[1].h = 2 * ParseF32(Vals[2]) - ParseF32(Vals[4])
    /\ NotInverted(boxes[1])

(***************************************************************************)
(* C15.  A numeric token n whose offset id is not below the length of the  *)
(* class table extends the table by the names class_<k>, one for every     *)
(* index k from the old length up to the id, and the line's box gets the   *)
(* name at the id.  With the table ["object"], the line "0 0.1 0.1 0.2     *)
(* 0.2" leaves the table ["object", "class_1"] and a box of class          *)
(* "class_1".                                                              *)
(***************************************************************************)
LoadedFrom(s, lines) ==
    load_annotations_for_current(
      [s EXCEPT !.ann = [s.ann EXCEPT ![s.cur_idx] = FileOf(lines)]], Ok)

Placeholders(from, to) == [k \in 1..(to - from + 1) |-> PlaceholderName(from + k - 1)]

ExampleVals == << <<100000>>, <<100000>>, <<200000>>, <<200000>> >>

C15_PlaceholderExtension ==
    /\ \A n \in 0..MaxToken :
         LET id == n + ObjectOffset(classes)
             l == LoadedFrom(St, <<Line(IdTok(n), Vals)>>)
         IN  id >= Len(classes) =>
               /\ l.classes = classes \o Placeholders(Len(classes), id)
               /\ Len(l.boxes) = 1
               /\ l.boxes[1].class_name = PlaceholderName(id)
    /\ classes = <<"object">> =>
         LET l == LoadedFrom(St, <<Line(IdTok(0), ExampleVals)>>)
         IN  /\ l.classes = <<"object", "class_1">>
             /\ l.boxes = <<BBox("class_1", ParseF32(ExampleVals[1]), ParseF32(ExampleVals[2]),
                                 ParseF32(ExampleVals[3]), ParseF32(ExampleVals[4]))>>

\* a directory without label file whose first annotation file holds one line
\* with the id 0 has been opened: the table has its placeholder and the box
\* has that class
C15_Witness ==
    /\ frames = 0 /\ labels = FileOf(classes)
    /\ ann[cur_idx] = FileOf(<<FileBox>>)
    /\ classes = <<"object", "class_1">>
    /\ Len(boxes) = 1 /\ boxes[1].class_name = "class_1"

(***************************************************************************)
(* C16.  A persisting frame (release, delete, duplicate, reassign, undo,   *)
(* Save) whose File::create fails ends with the same collection,           *)
(* selection, history stack and drag mode as the same frame with the write *)
(* succeeding; and a Save in the frame after it, with the write            *)
(* succeeding, leaves the file with one line per box of the collection.    *)
(***************************************************************************)
PersistInputs == CommitInputs \cup {SaveInput}

SameSession(a, b) ==
    /\ a.boxes = b.boxes /\ a.selected_box = b.selected_box
    /\ a.history = b.history /\ a.drag_mode = b.drag_mode

C17_LabelFileCreated ==
    frames = 0 => labels = FileOf(<<"object">>)

(***************************************************************************)
(* C18.  A press inside the image rectangle selects the box of highest     *)
(* index among those whose rectangle, expanded by click_tolerance on every *)
(* side, contains the press position, and no box when there is none.       *)
(***************************************************************************)
HitIndices(bs, pos) == {i \in 0..(Len(bs) - 1) : Hit(At(bs, i), pos)}

Highest(S) == CHOOSE i \in S : \A j \in S : j <= i

C18_ReverseHitTest ==
    texture =>
      \A p \in HitGrid :
        LET hits == HitIndices(boxes, p)
            s == update(St, PressInput(p))
        IN  s.selected_box = IF hits = {} THEN NoneIdx ELSE Highest(hits)

\* the press position lies within two different boxes and the second one is
\* selected
C18_Witness ==
    /\ drag_mode # DragNone /\ last_pointer_pos.some
    /\ Len(boxes) = 2 /\ boxes[1] # boxes[2]
    /\ HitIndices(boxes, last_pointer_pos) = {0, 1}
    /\ selected_box = 1

(***************************************************************************)
(* C19.  A press that hits a box starts Resizing(corner) when the press is *)
(* within the handle radius max(click_tolerance, 6 px) of that corner in   *)
(* both directions, the corners being tried in the order top-left,         *)
(* top-right, bottom-left, bottom-right, and Moving when it is near none.  *)
(***************************************************************************)
CornerOrder == <<"TL", "TR", "BL", "BR">>

CornerX2(b, c) == IF c \in {"TL", "BL"} THEN Left2(b) ELSE Right2(b)
CornerY2(b, c) == IF c \in {"TL", "TR"} THEN Top2(b) ELSE Bottom2(b)

NearCorner(b, pos, c) ==
    /\ Abs(Px2(pos.x) - CornerX2(b, c)) <= Px2(Max2(click_tolerance, HandleMin))
    /\ Abs(Px2(pos.y) - CornerY2(b, c)) <= Px2(Max2(click_tolerance, HandleMin))

NearCorners(b, pos) == {k \in 1..4 : NearCorner(b, pos, CornerOrder[k])}

ExpectedMode(b, pos) ==
    LET near == NearCorners(b, pos)
    IN  IF near = {} THEN DragMoving
        ELSE DragResizing(CornerOrder[CHOOSE k \in near : \A j \in near : k <= j])

C19_CornerClassification ==
    texture =>
      \A p \in HitGrid :
        LET hits == HitIndices(boxes, p)
            s == update(St, PressInput(p))
        IN  hits # {} => s.drag_mode = ExpectedMode(At(boxes, Highest(hits)), p)

\* a press near all four corners of the selected box has started a top-left
\* resize
C19_Witness ==
    /\ drag_mode = DragResizing("TL") /\ last_pointer_pos.some
    /\ ValidIdx(selected_box, boxes)
    /\ NearCorners(At(boxes, selected_box), last_pointer_pos) = {1, 2, 3, 4}

(***************************************************************************)
(* C20.  A press inside the image rectangle starts exactly one mode other  *)
(* than None: Creating, with the selection cleared and the press position  *)
(* as anchor, when no box is hit, and otherwise Moving or Resizing with    *)
(* the hit box selected.  The next release returns the mode to None and    *)
(* clears the last pointer position, and after a successful creation the   *)
(* selection is still unset.                                               *)
(***************************************************************************)
C20_DragModeLifecycle ==
    /\ texture =>
         \A p \in HitGrid :
           LET hits == HitIndices(boxes, p)
               s == update(St, PressInput(p))
           IN  IF hits = {}
               THEN /\ s.drag_mode = DragCreating
                    /\ s.selected_box = NoneIdx
                    /\ s.dragging /\ s.drag_start = p
               ELSE /\ s.drag_mode[1] \in {"Moving", "Resizing"}
                    /\ s.selected_box \in hits
    /\ drag_mode # DragNone =>
         \A q \in HitGrid :
           LET r == update(St, ReleaseInput(q))
           IN  /\ r.drag_mode = DragNone
               /\ r.last_pointer_pos = NoPos
               /\ (drag_mode = DragCreating /\ Len(r.boxes) = Len(boxes) + 1)
                     => r.selected_box = NoneIdx

\* a press on the empty area and a release far from it created a third box:
\* the mode is None again and nothing is selected
C20_Witness ==
    /\ drag_mode = DragNone /\ last_pointer_pos = NoPos /\ ~dragging
    /\ selected_box = NoneIdx
    /\ Len(boxes) = 3 /\ boxes[3] = DraggedBox(St)
    /\ Len(history) = 2

(***************************************************************************)
(* C21.  A drag step while Moving adds to the selected box's cx and cy the *)
(* normalized difference between the pointer position and the last         *)
(* recorded one, each clamped to [0, 1], and records the pointer position; *)
(* w, h, the other boxes, the number of boxes and the selection stay.      *)
(***************************************************************************)
C21_MovingDragStep ==
    (texture /\ drag_mode = DragMoving /\ ValidIdx(selected_box, boxes)
       /\ last_pointer_pos.some) =>
      \A q \in MoveTargets :
        LET s == update(St, DragInput(q))
            b == At(boxes, selected_box)
            dx == (q.x - last_pointer_pos.x) * (Scale \div ImgWidth)
            dy == (q.y - last_pointer_pos.y) * (Scale \div ImgHeight)
            moved == [b EXCEPT !.cx = Max2(0, Min2(Scale, b.cx + dx)),
                               !.cy = Max2(0, Min2(Scale, b.cy + dy))]
        IN  /\ s.boxes = [boxes EXCEPT ![selected_box + 1] = moved]
            /\ s.selected_box = selected_box
            /\ s.last_pointer_pos = q

\* the box was dragged to the left end and to the bottom end of the image
\* and the pointer came back to where it was pressed
C21_Witness ==
    /\ drag_mode = DragMoving /\ selected_box = 0 /\ Len(boxes) = 1
    /\ last_pointer_pos = SomePos(55, 35)
    /\ boxes[1].cx = 0 /\ boxes[1].cy = Scale
    /\ boxes[1].w = 3200000 /\ boxes[1].h = 2400000

(***************************************************************************)
(* C22.  Reassigning the class of the selected box, through the dropdown   *)
(* or through "Assign current left-class to selected", writes the          *)
(* annotation file only if the class name of the box changed: when the     *)
(* chosen class is the one the box has, the files stay as they are.        *)
(***************************************************************************)
ReassignInputs == {AssignInput} \cup {ReassignInput(i) : i \in 0..(ClassSlots - 1)}

C22_ReassignWritesOnlyOnChange ==
    (texture /\ ValidIdx(selected_box, boxes)) =>
      \A in \in ReassignInputs :
        LET s == update(St, in)
        IN  At(s.boxes, selected_box).class_name = At(boxes, selected_box).class_name
              => s.ann = ann

(***************************************************************************)
(* C23.  Undo ends the interaction in progress: after Ctrl+Z in drag mode  *)
(* Creating, Moving or Resizing, the drag and release events that follow,  *)
(* up to the next press, neither change a box nor append one.              *)
(***************************************************************************)
C23_UndoEndsInteraction ==
    (drag_mode # DragNone /\ history # <<>>) =>
      LET undone == update(St, CtrlZInput)
      IN  /\ \A q \in DragPositions :
               LET dragged == update(undone, DragInput(q))
               IN  /\ dragged.boxes = undone.boxes
                   /\ \A r \in ReleasePositions :
                        update(dragged, ReleaseInput(r)).boxes = undone.boxes
          /\ \A r \in ReleasePositions :
               update(undone, ReleaseInput(r)).boxes = undone.boxes

(***************************************************************************)
(* C24.  A malformed annotation line, one of fewer than 5 fields or with a *)
(* field among the 2nd to 5th that is no float, is dropped alone: the      *)
(* boxes and the class table after loading the file are those of the file  *)
(* without that line, and the lines after it are parsed.                   *)
(***************************************************************************)
WellFormed(line) ==
    /\ line.tok # <<>> /\ Len(line.vals) >= 4
    /\ \A i \in 1..4 : line.vals[i] # <<>>

WithoutMalformed(f) ==
    IF f.exists THEN FileOf(SelectSeq(f.lines, WellFormed)) ELSE f

LoadInputs ==
    {ButtonInput(b, TRUE) : b \in {"prev", "next", "reload"}}
      \cup {ListInput(i, TRUE) : i \in ImageIdx}

C24_MalformedLineDropped ==
    \A in \in LoadInputs :
      LET cleaned == [St EXCEPT !.ann = [i \in ImageIdx |-> WithoutMalformed(ann[i])]]
          s == update(St, in)
          t == update(cleaned, in)
      IN  s.boxes = t.boxes /\ s.classes = t.classes

(***************************************************************************)
(* C25.  A resize drag step keeps the two edges opposite the dragged       *)
(* corner and floors the new size at 0.0001: the new w is the distance     *)
(* between the dragged vertical edge and the fixed one, or 0.0001 when     *)
(* that is larger, and likewise the new h; a size is at most 1.  Sizes are *)
(* compared doubled.                                                       *)
(***************************************************************************)
PointerX(pos) == Max2(0, Min2(Scale, ((pos.x - ImgLeft) * Scale) \div ImgWidth))
PointerY(pos) == Max2(0, Min2(Scale, ((pos.y - ImgTop) * Scale) \div ImgHeight))

FixedX2(b, corner) == IF corner \in {"TL", "BL"} THEN 2 * b.cx + b.w ELSE 2 * b.cx - b.w
FixedY2(b, corner) == IF corner \in {"TL", "TR"} THEN 2 * b.cy + b.h ELSE 2 * b.cy - b.h

C25_ResizeFloor ==
    (texture /\ drag_mode[1] = "Resizing" /\ ValidIdx(selected_box, boxes)) =>
      \A q \in ResizeGrid :
        LET b == At(boxes, selected_box)
            r == At(update(St, DragInput(q)).boxes, selected_box)
            floor2 == 2 * (Scale \div 10000)
        IN  /\ 2 * r.w = Min2(2 * Scale,
                               Max2(Abs(2 * PointerX(q) - FixedX2(b, drag_mode[2])), floor2))
            /\ 2 * r.h = Min2(2 * Scale,
                               Max2(Abs(2 * PointerY(q) - FixedY2(b, drag_mode[2])), floor2))

(***************************************************************************)
(* C26.  Within one save, two boxes whose class names stand at different   *)
(* indices of the class table are written with different numeric ids.      *)
(***************************************************************************)
C26_SaveInjectiveOnClasses ==
    LET s == update(St, SaveInput)
        lines == s.ann[s.cur_idx].lines
    IN  Len(lines) = Len(s.boxes) =>
          \A i, j \in 1..Len(s.boxes) :
            Position(s.classes, s.boxes[i].class_name)
                # Position(s.classes, s.boxes[j].class_name)
              => lines[i].tok # lines[j].tok

(***************************************************************************)
(* C27.  When the image switched to fails to decode, the collection after  *)
(* the switch holds none of the boxes of the image that was left: every    *)
(* box in it is one the new image's own annotation file parses to, so a    *)
(* later Save writes nothing of the previous image into that file.         *)
(***************************************************************************)
FailedSwitchInputs == {in \in SwitchInputs : ~in.decode_ok}

C27_FailedDecodeDropsBoxes ==
    \A in \in FailedSwitchInputs :
      LET s == update(St, in)
          own == ParsedBoxes(s.ann[s.cur_idx], s.classes)
          saved == update(s, SaveInput)
      IN  s.cur_idx # cur_idx =>
            /\ \A k \in 1..Len(s.boxes) : \E m \in 1..Len(own) : s.boxes[k] = own[m]
            /\ Len(saved.ann[s.cur_idx].lines) <= Len(own)

====
